---- MODULE Spec2Model ----
(***************************************************************************)
(* Model of reintroduce_two_child_limit.py: the batch run of main() over   *)
(* a baseline and a reform microsimulation, and the aggregators it calls.  *)
(*                                                                         *)
(* Numbers.  The script computes in IEEE floating point (numpy scalars).   *)
(* A computed value is modelled as a record                                *)
(*     [k |-> "num", n |-> numerator, d |-> denominator > 0]  (lowest      *)
(*     terms), [k |-> "nan", ...] or [k |-> "inf", n |-> sign, ...].       *)
(* Finite values are exact rationals: binary rounding error is not         *)
(* modelled, division by zero yields nan or a signed infinity as numpy     *)
(* does (a warning, no exception), and round() is round-half-to-even.      *)
(* Weights are multiples of 1/WeightDenom.                                 *)
(***************************************************************************)
EXTENDS Integers, Sequences, FiniteSets, TLC

VARIABLES pc, engine, unsupported, files, constituency_weights, calls, error,
          budgetary_df, headcounts_df, distributional_df, poverty_df,
          inequality_df, constituency_df, written

vars == <<pc, engine, unsupported, files, constituency_weights, calls, error,
          budgetary_df, headcounts_df, distributional_df, poverty_df,
          inequality_df, constituency_df, written>>

(* ------------------------------ bounds -------------------------------- *)

\* Longest household vector, person vector and region list drawn.
MaxHouseholds == 2
MaxPersons == 2
MaxRegions == 2
\* Largest weight numerator: weights are 0 .. MaxWeight, in units of 1/WeightDenom.
MaxWeight == 2
WeightDenom == 2
\* Largest number of children in a household.
MaxChildren == 3
\* Largest number of variable names the engine does not know.
MaxUnsupported == 1
\* Largest factor a region's weight vector is rescaled by.
MaxScale == 3

(* ------------------------- program constants -------------------------- *)

YEARS == <<2029, 2030>>
\* range(1, 11)
NumDeciles == 10
\* "children beyond the 2nd"
ChildLimit == 2
\* age < 18
ChildAge == 18
\* impact in billions: / 1e9
Billion == 1000000000

(* ------------------------------ numbers ------------------------------- *)

Abs(i) == IF i < 0 THEN -i ELSE i

RECURSIVE GCD(_, _)
GCD(a, b) == IF b = 0 THEN a ELSE GCD(b, a % b)

Nan == [k |-> "nan", n |-> 0, d |-> 1]
Inf(s) == [k |-> "inf", n |-> s, d |-> 1]

\* The rational n/d, d # 0, in lowest terms with a positive denominator.
Rat(n, d) ==
    LET g == GCD(Abs(n), Abs(d))
        s == IF d < 0 THEN -1 ELSE 1
    IN  [k |-> "num", n |-> s * (n \div g), d |-> Abs(d) \div g]

Num(i) == [k |-> "num", n |-> i, d |-> 1]
Zero == Num(0)

Sign(x) == IF x.n > 0 THEN 1 ELSE IF x.n < 0 THEN -1 ELSE 0

\* (a/b) * (c/d) in lowest terms, reduced crosswise before multiplying so
\* that no intermediate product is larger than the result's terms.
RatMul(a, b, c, d) ==
    LET g1 == GCD(Abs(a), Abs(d))
        g2 == GCD(Abs(c), Abs(b))
    IN  IF a = 0 \/ c = 0 THEN [k |-> "num", n |-> 0, d |-> 1]
        ELSE Rat((a \div g1) * (c \div g2), (b \div g2) * (d \div g1))

\* x / y as numpy divides float scalars: 0/0 is nan, a/0 is a signed infinity.
Div(x, y) ==
    IF x.k = "nan" \/ y.k = "nan" THEN Nan
    ELSE IF x.k = "inf" THEN (IF y.k = "inf" THEN Nan
                              ELSE Inf(IF y.n < 0 THEN -x.n ELSE x.n))
    ELSE IF y.k = "inf" THEN Zero
    ELSE IF y.n = 0 THEN (IF x.n = 0 THEN Nan ELSE Inf(Sign(x)))
    ELSE RatMul(x.n, x.d, y.d, y.n)

Mul(x, y) ==
    IF x.k = "nan" \/ y.k = "nan" THEN Nan
    ELSE IF x.k = "inf" \/ y.k = "inf"
         THEN (IF Sign(x) * Sign(y) = 0 THEN Nan ELSE Inf(Sign(x) * Sign(y)))
    ELSE RatMul(x.n, x.d, y.n, y.d)

Sub(x, y) ==
    IF x.k = "nan" \/ y.k = "nan" THEN Nan
    ELSE IF x.k = "inf" THEN (IF y.k = "inf" /\ y.n = x.n THEN Nan ELSE x)
    ELSE IF y.k = "inf" THEN Inf(-y.n)
    ELSE Rat(x.n * y.d - y.n * x.d, x.d * y.d)

\* x > 0; every comparison with nan is False.
Gt0(x) == x.k # "nan" /\ x.n > 0

IsZero(x) == x.k = "num" /\ x.n = 0

RECURSIVE Pow10(_)
Pow10(e) == IF e = 0 THEN 1 ELSE 10 * Pow10(e - 1)

RECURSIVE LongDivision(_, _, _)
\* <<q, r>> with n * 10^e = q * d + r and 0 <= r < d (d > 0), one decimal
\* digit at a time
LongDivision(n, d, e) ==
    IF e = 0 THEN <<n \div d, n % d>>
    ELSE LET prev == LongDivision(n, d, e - 1)
         IN  <<10 * prev[1] + (10 * prev[2]) \div d, (10 * prev[2]) % d>>

\* The integer nearest to q + r/d (0 <= r < d), ties to the even one.
HalfEven(q, r, d) ==
    IF 2 * r < d THEN q
    ELSE IF 2 * r > d THEN q + 1
    ELSE IF q % 2 = 0 THEN q ELSE q + 1

\* The integer nearest to n/d (d > 0), ties to the even one.
RoundHalfEven(n, d) == HalfEven(n \div d, n % d, d)

\* round(x, ndigits): nan and the infinities round to themselves.
Round(x, ndigits) ==
    IF x.k # "num" THEN x
    ELSE LET qr == LongDivision(x.n, x.d, ndigits)
         IN  Rat(HalfEven(qr[1], qr[2], x.d), Pow10(ndigits))

\* round(x) of a finite value: an integer.
RoundInt(x) == Num(RoundHalfEven(x.n, x.d))

(* --------------------------- sequences -------------------------------- *)

RECURSIVE SumSeq(_)
SumSeq(s) == IF s = <<>> THEN 0 ELSE Head(s) + SumSeq(Tail(s))

\* numpy boolean-mask indexing: values[mask]
Masked(values, mask) ==
    LET RECURSIVE Pick(_)
        Pick(i) == IF i > Len(values) THEN <<>>
                   ELSE (IF mask[i] THEN <<values[i]>> ELSE <<>>) \o Pick(i + 1)
    IN  Pick(1)

\* elementwise product of two equally long vectors
Times(a, b) == [i \in 1..Len(a) |-> a[i] * b[i]]

\* A weight-sum numerator as a value: weights are in units of 1/WeightDenom.
Weighted(n) == Rat(n, WeightDenom)

\* f"{year}-{str(year + 1)[-2:]}"
FiscalYear(year) == <<year, (year + 1) % 100>>

(* ------------------------------ engine -------------------------------- *)
(* The two Microsimulation objects.  engine.hh[year] is the household      *)
(* vector of that year and engine.persons[year] the person vector; a       *)
(* record holds each variable's value for the unit, under the baseline     *)
(* (b_) and under the reform (r_) where the script asks both.              *)

Years == {YEARS[i] : i \in 1..Len(YEARS)}

VariableNames ==
    {"gov_balance", "household_net_income", "household_weight",
     "household_count_people", "num_children", "household_income_decile",
     "person_weight", "age", "in_poverty_bhc", "in_poverty_ahc",
     "equiv_household_net_income"}

\* sim.calculate(variable, period=year, map_to=...).values
Calculate(eng, sim, variable, year) ==
    LET hh == eng.hh[year]
        pp == eng.persons[year]
        H(f(_)) == [i \in 1..Len(hh) |-> f(hh[i])]
        P(f(_)) == [i \in 1..Len(pp) |-> f(pp[i])]
        b == sim = "baseline"
        Balance(h) == IF b THEN h.b_balance ELSE h.r_balance
        Income(h) == IF b THEN h.b_income ELSE h.r_income
        Equiv(h) == IF b THEN h.b_equiv ELSE h.r_equiv
        Weight(h) == h.household_weight
        People(h) == h.household_count_people
        Children(h) == h.num_children
        Decile(h) == h.household_income_decile
        PWeight(p) == p.person_weight
        Age(p) == p.age
        Bhc(p) == IF b THEN p.b_bhc ELSE p.r_bhc
        Ahc(p) == IF b THEN p.b_ahc ELSE p.r_ahc
    IN  CASE variable = "gov_balance" -> H(Balance)
          [] variable = "household_net_income" -> H(Income)
          [] variable = "equiv_household_net_income" -> H(Equiv)
          [] variable = "household_weight" -> H(Weight)
          [] variable = "household_count_people" -> H(People)
          [] variable = "num_children" -> H(Children)
          [] variable = "household_income_decile" -> H(Decile)
          [] variable = "person_weight" -> P(PWeight)
          [] variable = "age" -> P(Age)
          [] variable = "in_poverty_bhc" -> P(Bhc)
          [] variable = "in_poverty_ahc" -> P(Ahc)

\* The first variable of a sequence of calculate() calls that the engine
\* does not know ("" when it knows them all), and the number of calls made
\* up to and including it.
FirstUnknown(names, unknown) ==
    LET bad == {i \in 1..Len(names) : names[i] \in unknown}
    IN  IF bad = {} THEN ""
        ELSE names[CHOOSE i \in bad : \A j \in bad : i <= j]

CallsMade(names, unknown) ==
    LET bad == {i \in 1..Len(names) : names[i] \in unknown}
    IN  IF bad = {} THEN Len(names) * Len(YEARS)
        ELSE CHOOSE i \in bad : \A j \in bad : i <= j

(* ------------------------ calculate_headcounts ------------------------ *)

Max(a, b) == IF a >= b THEN a ELSE b

HeadcountsCalls ==
    <<"household_net_income", "household_net_income", "household_weight",
      "household_count_people", "num_children">>

\* Affected with the threshold included: a change of exactly 1 counts.
AffectedFromOne(income_change) ==
    [i \in 1..Len(income_change) |-> Abs(income_change[i]) >= 1]

\* np.abs(income_change.values) > 1
Affected(income_change) ==
    [i \in 1..Len(income_change) |-> Abs(income_change[i]) > 1]

\* ExtraChildren counting every child of the household.
ExtraChildrenAll(num_children) ==
    [i \in 1..Len(num_children) |-> Max(0, num_children[i])]

\* np.maximum(0, num_children - 2)
ExtraChildren(num_children) ==
    [i \in 1..Len(num_children) |-> Max(0, num_children[i] - ChildLimit)]

\* avg_loss_per_affected_hh
AvgLossPerAffectedHh(income_change, hh_weight, affected) ==
    LET affected_mask ==
            [i \in 1..Len(hh_weight) |-> affected[i] /\ hh_weight[i] > 0]
    IN  IF Len(Masked(hh_weight, affected_mask)) > 0
        THEN Div(Weighted(SumSeq(Times(Masked(income_change, affected_mask),
                                       Masked(hh_weight, affected_mask)))),
                 Weighted(SumSeq(Masked(hh_weight, affected_mask))))
        ELSE Zero

\* One pass of the loop over YEARS: the row appended for `year`.
HeadcountsRow(eng, year) ==
    LET baseline_income == Calculate(eng, "baseline", "household_net_income", year)
        reform_income == Calculate(eng, "reform", "household_net_income", year)
        hh_weight == Calculate(eng, "baseline", "household_weight", year)
        hh_count_people == Calculate(eng, "baseline", "household_count_people", year)
        income_change ==
            [i \in 1..Len(reform_income) |-> reform_income[i] - baseline_income[i]]
        affected == Affected(income_change)
        total_households == Weighted(SumSeq(hh_weight))
        affected_households == Weighted(SumSeq(Masked(hh_weight, affected)))
        total_people == Weighted(SumSeq(Times(hh_weight, hh_count_people)))
        affected_people ==
            Weighted(SumSeq(Times(Masked(hh_weight, affected),
                                  Masked(hh_count_people, affected))))
        num_children == Calculate(eng, "baseline", "num_children", year)
        total_children == Weighted(SumSeq(Times(hh_weight, num_children)))
        extra_children == ExtraChildren(num_children)
        affected_children ==
            Weighted(SumSeq(Times(Masked(hh_weight, affected),
                                  Masked(extra_children, affected))))
        avg_loss_per_affected_hh ==
            AvgLossPerAffectedHh(income_change, hh_weight, affected)
    IN  [year |-> FiscalYear(year),
         total_households |-> RoundInt(total_households),
         affected_households |-> RoundInt(affected_households),
         total_people |-> RoundInt(total_people),
         affected_people |-> RoundInt(affected_people),
         total_children |-> RoundInt(total_children),
         affected_children |-> RoundInt(affected_children),
         pct_households_affected |->
             Round(Mul(Div(affected_households, total_households), Num(100)), 1),
         pct_people_affected |->
             Round(Mul(Div(affected_people, total_people), Num(100)), 1),
         pct_children_affected |->
             IF Gt0(total_children)
             THEN Round(Mul(Div(affected_children, total_children), Num(100)), 1)
             ELSE Zero,
         avg_loss_per_affected_hh |-> Round(avg_loss_per_affected_hh, 2)]

HeadcountsTable(eng) == [y \in 1..Len(YEARS) |-> HeadcountsRow(eng, YEARS[y])]

(* --------------------- calculate_budgetary_impact --------------------- *)

BudgetaryCalls == <<"gov_balance", "gov_balance">>

\* MicroSeries.sum(): the sum of value x weight
WeightedSum(values, weights) == Weighted(SumSeq(Times(values, weights)))

BudgetaryRow(eng, year) ==
    LET weight == Calculate(eng, "baseline", "household_weight", year)
        baseline_balance ==
            WeightedSum(Calculate(eng, "baseline", "gov_balance", year), weight)
        reform_balance ==
            WeightedSum(Calculate(eng, "reform", "gov_balance", year), weight)
        impact_bn == Div(Sub(reform_balance, baseline_balance), Num(Billion))
    IN  [year |-> FiscalYear(year),
         budgetary_impact_bn |-> Round(impact_bn, 2)]

BudgetaryTable(eng) == [y \in 1..Len(YEARS) |-> BudgetaryRow(eng, YEARS[y])]

(* ------------------ calculate_distributional_impact ------------------- *)

DistributionalCalls ==
    <<"household_net_income", "household_net_income",
      "household_income_decile", "household_weight">>

\* df = pd.DataFrame({...}); df = df[df["decile"] >= 1]
DecileFrame(eng, year) ==
    LET baseline_income == Calculate(eng, "baseline", "household_net_income", year)
        reform_income == Calculate(eng, "reform", "household_net_income", year)
        decile == Calculate(eng, "baseline", "household_income_decile", year)
        weight == Calculate(eng, "baseline", "household_weight", year)
        df == [i \in 1..Len(decile) |->
                 [index |-> i,
                  decile |-> decile[i],
                  change |-> reform_income[i] - baseline_income[i],
                  baseline_income |-> baseline_income[i],
                  weight |-> weight[i]]]
    IN  SelectSeq(df, LAMBDA row : row.decile >= 1)

\* Bucket taking every row up to decile d.
BucketUpTo(df, d) == SelectSeq(df, LAMBDA row : row.decile <= d)

\* dd = df[df["decile"] == d]
Bucket(df, d) == SelectSeq(df, LAMBDA row : row.decile = d)

\* DecileRows with the plain mean of the weighted changes: divided by the
\* number of rows, not by the total weight.
DecileRowsPlainMean(dd, year, d) ==
    LET ddweight == [i \in 1..Len(dd) |-> dd[i].weight]
        ddchange == [i \in 1..Len(dd) |-> dd[i].change]
        ddbaseline == [i \in 1..Len(dd) |-> dd[i].baseline_income]
        total_w == Weighted(SumSeq(ddweight))
        weighted_change == Weighted(SumSeq(Times(ddchange, ddweight)))
        weighted_baseline == Weighted(SumSeq(Times(ddbaseline, ddweight)))
        avg_change == Div(weighted_change, Num(Len(dd)))
        rel_change == IF Gt0(weighted_baseline)
                      THEN Mul(Div(weighted_change, weighted_baseline), Num(100))
                      ELSE Zero
    IN  IF IsZero(total_w) THEN <<>>
        ELSE <<[year |-> FiscalYear(year),
                decile |-> d,
                avg_change_gbp |-> Round(avg_change, 2),
                relative_change_pct |-> Round(rel_change, 4)]>>

\* The body of "for d in range(1, 11)": no row, or the row of decile d.
DecileRows(dd, year, d) ==
    LET ddweight == [i \in 1..Len(dd) |-> dd[i].weight]
        ddchange == [i \in 1..Len(dd) |-> dd[i].change]
        ddbaseline == [i \in 1..Len(dd) |-> dd[i].baseline_income]
        total_w == Weighted(SumSeq(ddweight))
        weighted_change == Weighted(SumSeq(Times(ddchange, ddweight)))
        weighted_baseline == Weighted(SumSeq(Times(ddbaseline, ddweight)))
        avg_change == Div(weighted_change, total_w)
        rel_change == IF Gt0(weighted_baseline)
                      THEN Mul(Div(weighted_change, weighted_baseline), Num(100))
                      ELSE Zero
    IN  IF IsZero(total_w) THEN <<>>
        ELSE <<[year |-> FiscalYear(year),
                decile |-> d,
                avg_change_gbp |-> Round(avg_change, 2),
                relative_change_pct |-> Round(rel_change, 4)]>>

DistributionalYear(eng, year) ==
    LET df == DecileFrame(eng, year)
        RECURSIVE Loop(_)
        Loop(d) == IF d > NumDeciles THEN <<>>
                   ELSE DecileRows(Bucket(df, d), year, d) \o Loop(d + 1)
    IN  Loop(1)

RECURSIVE Flatten(_)
\* results.append(...) year after year: the years' rows, concatenated
Flatten(perYear) ==
    IF perYear = <<>> THEN <<>> ELSE Head(perYear) \o Flatten(Tail(perYear))

DistributionalTable(eng) ==
    Flatten([y \in 1..Len(YEARS) |-> DistributionalYear(eng, YEARS[y])])

(* ---------------------- calculate_poverty_impact ---------------------- *)

\* the calls made before the try block, every year
PovertyCalls == <<"person_weight", "age">>

measures ==
    <<[measure_name |-> "Absolute BHC", var_name |-> "in_poverty_bhc"],
      [measure_name |-> "Absolute AHC", var_name |-> "in_poverty_ahc"]>>

And(a, b) == [i \in 1..Len(a) |-> a[i] /\ b[i]]

\* PovertyRate over everyone, whatever the group.
PovertyRateUngrouped(person_weight, group, pov) ==
    Mul(Div(Weighted(SumSeq(Masked(person_weight, pov))),
            Weighted(SumSeq(person_weight))),
        Num(100))

\* (person_weight[group & pov].sum() / person_weight[group].sum()) * 100
PovertyRate(person_weight, group, pov) ==
    Mul(Div(Weighted(SumSeq(Masked(person_weight, And(group, pov)))),
            Weighted(SumSeq(Masked(person_weight, group)))),
        Num(100))

PovertyRow(year, measure_name, group_name, baseline_rate, reform_rate) ==
    LET change_pp == Sub(reform_rate, baseline_rate)
        change_pct == IF Gt0(baseline_rate)
                      THEN Mul(Div(change_pp, baseline_rate), Num(100))
                      ELSE Zero
    IN  [year |-> FiscalYear(year),
         measure |-> measure_name,
         group |-> group_name,
         baseline_rate_pct |-> Round(baseline_rate, 2),
         reform_rate_pct |-> Round(reform_rate, 2),
         change_pp |-> Round(change_pp, 2),
         change_pct |-> Round(change_pct, 1)]

\* The body of "for measure_name, var_name in measures": the except clause
\* skips a measure whose variable the engine does not know.
MeasureRows(eng, unknown, year, m) ==
    LET person_weight == Calculate(eng, "baseline", "person_weight", year)
        age == Calculate(eng, "baseline", "age", year)
        is_child == [i \in 1..Len(age) |-> age[i] < ChildAge]
        everyone == [i \in 1..Len(age) |-> TRUE]
        baseline_pov == Calculate(eng, "baseline", m.var_name, year)
        reform_pov == Calculate(eng, "reform", m.var_name, year)
    IN  IF m.var_name \in unknown THEN <<>>
        ELSE <<PovertyRow(year, m.measure_name, "Children",
                          PovertyRate(person_weight, is_child, baseline_pov),
                          PovertyRate(person_weight, is_child, reform_pov)),
               PovertyRow(year, m.measure_name, "All",
                          PovertyRate(person_weight, everyone, baseline_pov),
                          PovertyRate(person_weight, everyone, reform_pov))>>

PovertyYear(eng, unknown, year) ==
    LET RECURSIVE Loop(_)
        Loop(i) == IF i > Len(measures) THEN <<>>
                   ELSE MeasureRows(eng, unknown, year, measures[i]) \o Loop(i + 1)
    IN  Loop(1)

PovertyTable(eng, unknown) ==
    Flatten([y \in 1..Len(YEARS) |-> PovertyYear(eng, unknown, YEARS[y])])

\* calculate() calls of one run of calculate_poverty_impact that returns:
\* two per year, and per measure one when its first call fails, else two.
PovertyCallsMade(unknown) ==
    Len(YEARS) * (Len(PovertyCalls)
                  + SumSeq([i \in 1..Len(measures) |->
                              IF measures[i].var_name \in unknown THEN 1 ELSE 2]))

(* --------------------- calculate_inequality_impact -------------------- *)

InequalityCalls ==
    <<"equiv_household_net_income", "equiv_household_net_income",
      "household_count_people", "household_weight">>

\* np.argsort: the indices of `values` in increasing order of value
RECURSIVE ArgSort(_, _)
ArgSort(values, todo) ==
    IF todo = {} THEN <<>>
    ELSE LET i == CHOOSE i \in todo :
                      \A j \in todo : values[i] < values[j]
                                      \/ (values[i] = values[j] /\ i <= j)
         IN  <<i>> \o ArgSort(values, todo \ {i})

\* np.cumsum
CumSum(s) == [i \in 1..Len(s) |-> SumSeq(SubSeq(s, 1, i))]

\* MicroSeries(values, weights=weights).gini(), weights in units of
\* 1/WeightDenom (the unit cancels in the quotient)
Gini(values, weights) ==
    LET order == ArgSort(values, 1..Len(values))
        sorted_x == [i \in 1..Len(order) |-> values[order[i]]]
        sorted_w == [i \in 1..Len(order) |-> weights[order[i]]]
        cumw == CumSum(sorted_w)
        cumxw == CumSum(Times(sorted_x, sorted_w))
        n == Len(order)
        area == SumSeq([i \in 1..(n - 1) |->
                          cumxw[i + 1] * cumw[i] - cumxw[i] * cumw[i + 1]])
    IN  Div(Num(area), Num(cumxw[n] * cumw[n]))

InequalityRow(eng, year) ==
    LET baseline_equiv ==
            Calculate(eng, "baseline", "equiv_household_net_income", year)
        reform_equiv ==
            Calculate(eng, "reform", "equiv_household_net_income", year)
        hh_count == Calculate(eng, "baseline", "household_count_people", year)
        hh_weight == Calculate(eng, "baseline", "household_weight", year)
        adjusted_weights == Times(hh_weight, hh_count)
        Floor0(v) == [i \in 1..Len(v) |-> Max(v[i], 0)]
        baseline_gini == Gini(Floor0(baseline_equiv), adjusted_weights)
        reform_gini == Gini(Floor0(reform_equiv), adjusted_weights)
        gini_change_pct ==
            Mul(Div(Sub(reform_gini, baseline_gini), baseline_gini), Num(100))
    IN  [year |-> FiscalYear(year),
         baseline_gini |-> Round(baseline_gini, 6),
         reform_gini |-> Round(reform_gini, 6),
         gini_change_pct |-> Round(gini_change_pct, 2)]

InequalityTable(eng) == [y \in 1..Len(YEARS) |-> InequalityRow(eng, YEARS[y])]

(* -------------------- calculate_constituency_impact ------------------- *)

ConstituencyCalls == <<"household_net_income", "household_net_income">>

\* FilesMissing asking that both files be missing.
FilesMissingBoth(f) == ~f.weights /\ ~f.constituencies

\* not weights_path.exists() or not constituencies_path.exists()
FilesMissing(f) == ~f.weights \/ ~f.constituencies

\* Count as the number of units, whatever their weights.
CountRows(weight) == Num(Len(weight))

\* MicroSeries.count(): the sum of the weights
Count(weight) == Weighted(SumSeq(weight))

\* The body of "for i in range(len(constituency_df))": region i's row,
\* weight = constituency_weights[i].
ConstituencyRow(eng, year, i, weight) ==
    LET baseline_income == Calculate(eng, "baseline", "household_net_income", year)
        reform_income == Calculate(eng, "reform", "household_net_income", year)
        baseline_sum == WeightedSum(baseline_income, weight)
        reform_sum == WeightedSum(reform_income, weight)
        count == Count(weight)
        avg_change == Div(Sub(reform_sum, baseline_sum), count)
        avg_baseline == Div(baseline_sum, count)
        rel_change == IF Gt0(avg_baseline)
                      THEN Mul(Div(avg_change, avg_baseline), Num(100))
                      ELSE Zero
    IN  [year |-> FiscalYear(year),
         constituency_code |-> i,
         avg_change_gbp |-> Round(avg_change, 2),
         relative_change_pct |-> Round(rel_change, 4)]

ConstituencyTable(eng, cw) ==
    Flatten([y \in 1..Len(YEARS) |->
                [i \in 1..Len(cw) |-> ConstituencyRow(eng, YEARS[y], i, cw[i])]])

(* ------------------------------- inputs ------------------------------- *)
(* What the engine returns is outside the script: the vectors are drawn   *)
(* from bounded sets.  The second year's vectors follow from the first    *)
(* year's by NextYear, so that the two years differ.                      *)

DefaultHousehold ==
    [household_weight |-> WeightDenom, household_count_people |-> 2,
     num_children |-> 0, household_income_decile |-> 1,
     b_income |-> 20, r_income |-> 20, b_equiv |-> 20, r_equiv |-> 20,
     b_balance |-> 0, r_balance |-> 0]

DefaultPerson ==
    [person_weight |-> WeightDenom, age |-> 30,
     b_bhc |-> FALSE, r_bhc |-> FALSE, b_ahc |-> FALSE, r_ahc |-> FALSE]

DefaultPersons ==
    <<[DefaultPerson EXCEPT !.age = 10, !.b_ahc = TRUE, !.r_bhc = TRUE,
                            !.r_ahc = TRUE],
      DefaultPerson>>

\* The second year: one more weight unit, every baseline amount grown by
\* 10 and every change doubled, everyone a year older.
NextYear(h) ==
    [h EXCEPT !.household_weight = @ + 1,
              !.b_income = @ + 10,
              !.r_income = h.b_income + 10 + 2 * (h.r_income - h.b_income),
              !.b_equiv = @ + 10,
              !.r_equiv = h.b_equiv + 10 + 2 * (h.r_equiv - h.b_equiv),
              !.r_balance = h.b_balance + 2 * (h.r_balance - h.b_balance)]

NextYearPerson(p) ==
    [p EXCEPT !.person_weight = @ + 1, !.age = @ + 1]

Engine(hh, pp) ==
    [hh |-> [y \in Years |->
                IF y = YEARS[1] THEN hh
                ELSE [i \in 1..Len(hh) |-> NextYear(hh[i])]],
     persons |-> [y \in Years |->
                IF y = YEARS[1] THEN pp
                ELSE [i \in 1..Len(pp) |-> NextYearPerson(pp[i])]]]

SeqsUpTo(T, n) == UNION {[1..m -> T] : m \in 1..n}

\* 4 households, weights [1,1,1,1], baseline [10,20,30,40], reform
\* [10,15,30,40]
ExampleHouseholds ==
    [i \in 1..4 |->
        [DefaultHousehold EXCEPT !.household_income_decile = i,
                                 !.num_children = i - 1,
                                 !.household_count_people = i + 1,
                                 !.b_income = 10 * i,
                                 !.r_income = IF i = 2 THEN 15 ELSE 10 * i,
                                 !.b_equiv = 10 * i,
                                 !.r_equiv = IF i = 2 THEN 15 ELSE 10 * i,
                                 !.b_balance = 0,
                                 !.r_balance = IF i = 2 THEN 40000000 ELSE 0]]

\* the same households with the reform changing nothing
UnchangedHouseholds ==
    [i \in 1..4 |->
        [ExampleHouseholds[i] EXCEPT !.r_income = ExampleHouseholds[i].b_income,
                                     !.r_equiv = ExampleHouseholds[i].b_equiv,
                                     !.r_balance = ExampleHouseholds[i].b_balance]]

\* one household of negative income, which the engine gives decile -1
NegativeIncomeHouseholds ==
    <<[DefaultHousehold EXCEPT !.household_income_decile = -1,
                               !.b_income = -10, !.r_income = -10,
                               !.b_equiv = -10, !.r_equiv = -10]>>

IncomeChanges == {-5, -1, 0, 2}

HeadcountHouseholds ==
    {[DefaultHousehold EXCEPT !.household_weight = w,
                              !.num_children = c,
                              !.household_count_people = c + 1,
                              !.r_income = 20 + ch] :
        w \in 0..MaxWeight, c \in {0, ChildLimit, MaxChildren}, ch \in IncomeChanges}

\* region r's weight vector: `row` shifted by r - 1
RegionWeights(row, regions) ==
    [r \in 1..regions |->
        [i \in 1..Len(row) |-> (row[i] + r - 1) % (MaxWeight + 1)]]

UnitRow(eng) == [i \in 1..Len(eng.hh[YEARS[1]]) |-> WeightDenom]

(* -------------------------------- main -------------------------------- *)

Steps ==
    <<"budgetary", "headcounts", "distributional", "poverty", "inequality",
      "constituency">>

OUTPUTS ==
    <<"budgetary.csv", "headcounts.csv", "distributional.csv", "poverty.csv",
      "inequality.csv", "constituency.csv">>

\* An exception leaves the aggregator and main(): nothing catches it.
Raise(what, made) ==
    /\ pc' = "failed"
    /\ error' = what
    /\ calls' = calls + made

\* Aggregate with a failing calculate() call swallowed: the run goes on.
AggregateSwallow(names, next) ==
    /\ pc' = next
    /\ calls' = calls + Len(names) * Len(YEARS)
    /\ error' = error

\* One aggregator of main(): its calculate() calls in order, the table it
\* returns, and the step that follows.
Aggregate(names, next) ==
    LET bad == FirstUnknown(names, unsupported)
    IN  IF bad # ""
        THEN Raise(bad, CallsMade(names, unsupported))
        ELSE /\ pc' = next
             /\ calls' = calls + CallsMade(names, unsupported)
             /\ error' = error

CreateSimulations ==
    /\ pc = "create"
    /\ pc' = "budgetary"
    /\ UNCHANGED <<engine, unsupported, files, constituency_weights, calls,
                   error, budgetary_df, headcounts_df, distributional_df,
                   poverty_df, inequality_df, constituency_df, written>>

CalculateBudgetaryImpact ==
    /\ pc = "budgetary"
    /\ Aggregate(BudgetaryCalls, "headcounts")
    /\ budgetary_df' = IF pc' = "failed" THEN budgetary_df
                       ELSE BudgetaryTable(engine)
    /\ UNCHANGED <<engine, unsupported, files, constituency_weights,
                   headcounts_df, distributional_df, poverty_df,
                   inequality_df, constituency_df, written>>

CalculateHeadcounts ==
    /\ pc = "headcounts"
    /\ Aggregate(HeadcountsCalls, "distributional")
    /\ headcounts_df' = IF pc' = "failed" THEN headcounts_df
                        ELSE HeadcountsTable(engine)
    /\ UNCHANGED <<engine, unsupported, files, constituency_weights,
                   budgetary_df, distributional_df, poverty_df,
                   inequality_df, constituency_df, written>>

CalculateDistributionalImpact ==
    /\ pc = "distributional"
    /\ Aggregate(DistributionalCalls, "poverty")
    /\ distributional_df' = IF pc' = "failed" THEN distributional_df
                            ELSE DistributionalTable(engine)
    /\ UNCHANGED <<engine, unsupported, files, constituency_weights,
                   budgetary_df, headcounts_df, poverty_df,
                   inequality_df, constituency_df, written>>

CalculatePovertyImpact ==
    /\ pc = "poverty"
    /\ LET bad == FirstUnknown(PovertyCalls, unsupported)
       IN  IF bad # ""
           THEN /\ Raise(bad, CallsMade(PovertyCalls, unsupported))
                /\ poverty_df' = poverty_df
           ELSE /\ pc' = "inequality"
                /\ calls' = calls + PovertyCallsMade(unsupported)
                /\ error' = error
                /\ poverty_df' = PovertyTable(engine, unsupported)
    /\ UNCHANGED <<engine, unsupported, files, constituency_weights,
                   budgetary_df, headcounts_df, distributional_df,
                   inequality_df, constituency_df, written>>

CalculateInequalityImpact ==
    /\ pc = "inequality"
    /\ Aggregate(InequalityCalls, "constituency")
    /\ inequality_df' = IF pc' = "failed" THEN inequality_df
                        ELSE InequalityTable(engine)
    /\ UNCHANGED <<engine, unsupported, files, constituency_weights,
                   budgetary_df, headcounts_df, distributional_df,
                   poverty_df, constituency_df, written>>

CalculateConstituencyImpact ==
    /\ pc = "constituency"
    /\ IF FilesMissing(files)
       THEN /\ pc' = "summary"
            /\ constituency_df' = <<>>
            /\ UNCHANGED <<calls, error>>
       ELSE /\ Aggregate(ConstituencyCalls, "summary")
            /\ constituency_df' =
                   IF pc' = "failed" THEN constituency_df
                   ELSE ConstituencyTable(engine, constituency_weights)
    /\ UNCHANGED <<engine, unsupported, files, constituency_weights,
                   budgetary_df, headcounts_df, distributional_df,
                   poverty_df, inequality_df, written>>

\* print_summary called after budgetary.csv has been saved: its failure
\* leaves that file behind.
PrintSummaryAfterSave ==
    /\ pc = "summary"
    /\ IF distributional_df = <<>>
       THEN /\ pc' = "failed"
            /\ error' = "KeyError: year"
            /\ written' = written \cup {OUTPUTS[1]}
       ELSE /\ pc' = "save_budgetary"
            /\ error' = error
            /\ written' = written
    /\ UNCHANGED <<engine, unsupported, files, constituency_weights, calls,
                   budgetary_df, headcounts_df, distributional_df,
                   poverty_df, inequality_df, constituency_df>>

\* print_summary: distributional_df["year"] is read before any emptiness
\* test, and an empty table has no columns.
PrintSummary ==
    /\ pc = "summary"
    /\ IF distributional_df = <<>>
       THEN /\ pc' = "failed"
            /\ error' = "KeyError: year"
       ELSE /\ pc' = "save_budgetary"
            /\ error' = error
    /\ UNCHANGED <<engine, unsupported, files, constituency_weights, calls,
                   budgetary_df, headcounts_df, distributional_df,
                   poverty_df, inequality_df, constituency_df, written>>

\* <table>.to_csv(OUTPUT_DIR / file)
ToCsv(at, file, next) ==
    /\ pc = at
    /\ pc' = next
    /\ written' = written \cup {file}
    /\ UNCHANGED <<engine, unsupported, files, constituency_weights, calls,
                   error, budgetary_df, headcounts_df, distributional_df,
                   poverty_df, inequality_df, constituency_df>>

SaveBudgetary == ToCsv("save_budgetary", OUTPUTS[1], "save_headcounts")
SaveHeadcounts == ToCsv("save_headcounts", OUTPUTS[2], "save_distributional")
SaveDistributional == ToCsv("save_distributional", OUTPUTS[3], "save_poverty")
SavePoverty == ToCsv("save_poverty", OUTPUTS[4], "save_inequality")
SaveInequality == ToCsv("save_inequality", OUTPUTS[5], "save_constituency")

SaveConstituency ==
    /\ pc = "save_constituency"
    /\ pc' = "done"
    /\ written' = IF constituency_df # <<>> THEN written \cup {OUTPUTS[6]}
                  ELSE written
    /\ UNCHANGED <<engine, unsupported, files, constituency_weights, calls,
                   error, budgetary_df, headcounts_df, distributional_df,
                   poverty_df, inequality_df, constituency_df>>

MainEngines ==
    {Engine(hh, DefaultPersons) :
        hh \in {ExampleHouseholds, UnchangedHouseholds, NegativeIncomeHouseholds}}

Init ==
    /\ pc = "create"
    /\ engine \in MainEngines
    /\ unsupported \in {u \in SUBSET VariableNames : Cardinality(u) <= MaxUnsupported}
    /\ files \in [weights : BOOLEAN, constituencies : BOOLEAN]
    /\ constituency_weights \in
           {RegionWeights(UnitRow(engine), r) : r \in 1..MaxRegions}
    /\ calls = 0
    /\ error = ""
    /\ budgetary_df = <<>>
    /\ headcounts_df = <<>>
    /\ distributional_df = <<>>
    /\ poverty_df = <<>>
    /\ inequality_df = <<>>
    /\ constituency_df = <<>>
    /\ written = {}

Next ==
    \/ CreateSimulations
    \/ CalculateBudgetaryImpact
    \/ CalculateHeadcounts
    \/ CalculateDistributionalImpact
    \/ CalculatePovertyImpact
    \/ CalculateInequalityImpact
    \/ CalculateConstituencyImpact
    \/ PrintSummary
    \/ SaveBudgetary
    \/ SaveHeadcounts
    \/ SaveDistributional
    \/ SavePoverty
    \/ SaveInequality
    \/ SaveConstituency

Spec == Init /\ [][Next]_vars

(* --------------------- one aggregator on drawn vectors ---------------- *)
(* The aggregators are functions of what the engine returns.  Each of the *)
(* specifications below starts main() at one aggregator's call, with the  *)
(* tables of the calls before it computed, on vectors drawn from a wider  *)
(* set than Init's, and runs that aggregator.                             *)

StepCalls ==
    <<BudgetaryCalls, HeadcountsCalls, DistributionalCalls, PovertyCalls,
      InequalityCalls, ConstituencyCalls>>

\* calculate() calls made by the first k aggregators when none fails
CallsBefore(k, unknown) ==
    SumSeq([j \in 1..k |->
              IF Steps[j] = "poverty" THEN PovertyCallsMade(unknown)
              ELSE Len(StepCalls[j]) * Len(YEARS)])

\* main() about to call its k-th aggregator
InitAt(k, engines, unknowns) ==
    /\ pc = Steps[k]
    /\ engine \in engines
    /\ unsupported \in unknowns
    /\ files = [weights |-> TRUE, constituencies |-> TRUE]
    /\ calls = CallsBefore(k - 1, unsupported)
    /\ error = ""
    /\ budgetary_df = IF k > 1 THEN BudgetaryTable(engine) ELSE <<>>
    /\ headcounts_df = IF k > 2 THEN HeadcountsTable(engine) ELSE <<>>
    /\ distributional_df = IF k > 3 THEN DistributionalTable(engine) ELSE <<>>
    /\ poverty_df = IF k > 4 THEN PovertyTable(engine, unsupported) ELSE <<>>
    /\ inequality_df = IF k > 5 THEN InequalityTable(engine) ELSE <<>>
    /\ constituency_df = <<>>
    /\ written = {}

HeadcountEngines ==
    {Engine(hh, DefaultPersons) :
        hh \in SeqsUpTo(HeadcountHouseholds, MaxHouseholds) \cup {ExampleHouseholds}}

InitHeadcounts ==
    /\ InitAt(2, HeadcountEngines, {{}})
    /\ constituency_weights = RegionWeights(UnitRow(engine), 1)
NextHeadcounts == CalculateHeadcounts
SpecHeadcounts == InitHeadcounts /\ [][NextHeadcounts]_vars

\* deciles the engine returns: -1 for a household of negative income,
\* else one of 1..10 (here the two lowest and the highest)
DecileValues == {-1, 1, 2, NumDeciles}

\* <<baseline, reform>> incomes
IncomePairs == {<<20, 15>>, <<30, 30>>, <<-10, -12>>}

DistributionalHouseholds ==
    {[DefaultHousehold EXCEPT !.household_weight = w,
                              !.household_income_decile = d,
                              !.b_income = p[1],
                              !.r_income = p[2]] :
        w \in 0..MaxWeight, d \in DecileValues, p \in IncomePairs}

DistributionalEngines ==
    {Engine(hh, DefaultPersons) :
        hh \in SeqsUpTo(DistributionalHouseholds, MaxHouseholds)}

InitDistributional ==
    /\ InitAt(3, DistributionalEngines, {{}})
    /\ constituency_weights = RegionWeights(UnitRow(engine), 1)
NextDistributional == CalculateDistributionalImpact
SpecDistributional == InitDistributional /\ [][NextDistributional]_vars

\* <<baseline BHC, reform BHC, baseline AHC, reform AHC>> poverty flags
PovertyProfiles ==
    {<<FALSE, FALSE, FALSE, FALSE>>, <<TRUE, TRUE, TRUE, TRUE>>,
     <<FALSE, TRUE, FALSE, FALSE>>, <<TRUE, FALSE, FALSE, TRUE>>}

PersonTypes ==
    {[person_weight |-> w, age |-> a,
      b_bhc |-> f[1], r_bhc |-> f[2], b_ahc |-> f[3], r_ahc |-> f[4]] :
        w \in 0..MaxWeight, a \in {ChildAge - 1, ChildAge}, f \in PovertyProfiles}

PovertyEngines ==
    {Engine(<<DefaultHousehold>>, pp) : pp \in SeqsUpTo(PersonTypes, MaxPersons)}

InitPoverty ==
    /\ InitAt(4, PovertyEngines, {{}, {"in_poverty_bhc"}})
    /\ constituency_weights = RegionWeights(UnitRow(engine), 1)
NextPoverty == CalculatePovertyImpact
SpecPoverty == InitPoverty /\ [][NextPoverty]_vars

ConstituencyHouseholds ==
    {[DefaultHousehold EXCEPT !.b_income = p[1], !.r_income = p[2]] :
        p \in IncomePairs \cup {<<0, 0>>}}

ConstituencyEngines ==
    {Engine(hh, DefaultPersons) :
        hh \in SeqsUpTo(ConstituencyHouseholds, MaxHouseholds)}

InitConstituency ==
    /\ InitAt(6, ConstituencyEngines, {{}})
    /\ constituency_weights \in
           {RegionWeights(row, r) :
               row \in [1..Len(engine.hh[YEARS[1]]) -> 0..MaxWeight],
               r \in 1..MaxRegions}
NextConstituency == CalculateConstituencyImpact
SpecConstituency == InitConstituency /\ [][NextConstituency]_vars

\* The aggregator of step `name` has returned.
Returned(name) ==
    LET Index(n) == CHOOSE j \in 1..Len(Steps) : Steps[j] = n
    IN  /\ pc # "failed"
        /\ pc # "create"
        /\ (pc \in {Steps[j] : j \in 1..Len(Steps)} => Index(pc) > Index(name))

RECURSIVE SumOver(_, _)
\* the sum of the function f over the finite set S
SumOver(f, S) ==
    IF S = {} THEN 0
    ELSE LET x == CHOOSE x \in S : TRUE
         IN  f[x] + SumOver(f, S \ {x})

(* ------------------------------- claims ------------------------------- *)

Finite(x) == x.k = "num"

HouseholdsOf(y) == engine.hh[YEARS[y]]
PersonsOf(y) == engine.persons[YEARS[y]]

\* the households of year y whose income the reform changes by more than 1
AffectedSet(y) ==
    {i \in 1..Len(HouseholdsOf(y)) :
        Abs(HouseholdsOf(y)[i].r_income - HouseholdsOf(y)[i].b_income) > 1}

\* C1: a rate whose denominator is zero is reported as 0, never as a
\* non-number: in every table every percentage or rate field is a finite
\* number, and the headcount percentages are 0 when the total they divide
\* by is 0.
C1_UndefinedRateIsZero ==
    /\ \A y \in 1..Len(headcounts_df) :
          LET hh == HouseholdsOf(y)
              row == headcounts_df[y]
              All == 1..Len(hh)
              W == [i \in All |-> hh[i].household_weight]
              WP == [i \in All |->
                        hh[i].household_weight * hh[i].household_count_people]
              WC == [i \in All |-> hh[i].household_weight * hh[i].num_children]
          IN  /\ Finite(row.pct_households_affected)
              /\ Finite(row.pct_people_affected)
              /\ Finite(row.pct_children_affected)
              /\ SumOver(W, All) = 0 => IsZero(row.pct_households_affected)
              /\ SumOver(WP, All) = 0 => IsZero(row.pct_people_affected)
              /\ SumOver(WC, All) = 0 => IsZero(row.pct_children_affected)
    /\ \A r \in 1..Len(poverty_df) :
          /\ Finite(poverty_df[r].baseline_rate_pct)
          /\ Finite(poverty_df[r].reform_rate_pct)
          /\ Finite(poverty_df[r].change_pp)
          /\ Finite(poverty_df[r].change_pct)
    /\ \A r \in 1..Len(inequality_df) : Finite(inequality_df[r].gini_change_pct)
    /\ \A r \in 1..Len(constituency_df) :
          /\ Finite(constituency_df[r].avg_change_gbp)
          /\ Finite(constituency_df[r].relative_change_pct)

\* C5: after calculate_headcounts, in every year's row affected_households
\* is the (rounded) sum of the weights of the households with
\* |reform - baseline| > 1, and avg_loss_per_affected_hh is the (rounded)
\* weighted mean change over those of them with positive weight, 0 when
\* there is none; on the example of 4 households they are 1 and -5.
C5_AffectedAndAverageLoss ==
    Returned("headcounts") =>
        /\ \A y \in 1..Len(YEARS) :
              LET hh == HouseholdsOf(y)
                  A == AffectedSet(y)
                  P == {i \in A : hh[i].household_weight > 0}
                  W == [i \in 1..Len(hh) |-> hh[i].household_weight]
                  L == [i \in 1..Len(hh) |->
                           hh[i].household_weight * (hh[i].r_income - hh[i].b_income)]
              IN  /\ headcounts_df[y].affected_households
                         = RoundInt(Rat(SumOver(W, A), WeightDenom))
                  /\ headcounts_df[y].avg_loss_per_affected_hh
                         = IF P = {} THEN Zero
                           ELSE Round(Rat(SumOver(L, P), SumOver(W, P)), 2)
        /\ HouseholdsOf(1) = ExampleHouseholds =>
              /\ headcounts_df[1].affected_households = Num(1)
              /\ headcounts_df[1].avg_loss_per_affected_hh = Num(-5)

\* C5's case: the example of 4 households has been aggregated.
C5_Witness ==
    /\ Returned("headcounts")
    /\ HouseholdsOf(1) = ExampleHouseholds
    /\ headcounts_df[1].affected_households = Num(1)
    /\ headcounts_df[1].avg_loss_per_affected_hh = Num(-5)

\* C10: after calculate_headcounts, in every year's row affected_children
\* is the (rounded) sum over the affected households of weight x
\* max(0, num_children - 2): nothing for a household of at most 2 children
\* and nothing for an unaffected household.
C10_AffectedChildrenBeyondSecond ==
    Returned("headcounts") =>
        \A y \in 1..Len(YEARS) :
            LET hh == HouseholdsOf(y)
                A == AffectedSet(y)
                Beyond ==
                    [i \in 1..Len(hh) |->
                        IF i \in A /\ hh[i].num_children > 2
                        THEN hh[i].household_weight * (hh[i].num_children - 2)
                        ELSE 0]
            IN  headcounts_df[y].affected_children
                    = RoundInt(Rat(SumOver(Beyond, 1..Len(hh)), WeightDenom))

\* C10's case: an affected household of more than 2 children is counted
\* beside an unaffected one of more than 2 children.
C10_Witness ==
    /\ Returned("headcounts")
    /\ \E i, j \in 1..Len(HouseholdsOf(1)) :
          /\ i \in AffectedSet(1)
          /\ j \notin AffectedSet(1)
          /\ HouseholdsOf(1)[i].num_children > 2
          /\ HouseholdsOf(1)[j].num_children > 2
          /\ HouseholdsOf(1)[j].household_weight > 0
          /\ Gt0(headcounts_df[1].affected_children)
          /\ headcounts_df[1].affected_children
                 = RoundInt(Rat(HouseholdsOf(1)[i].household_weight
                                    * (HouseholdsOf(1)[i].num_children - 2),
                                WeightDenom))

\* the deciles whose bucket holds household i of year y
BucketsHolding(y, i) ==
    {d \in 1..NumDeciles :
        \E k \in 1..Len(Bucket(DecileFrame(engine, YEARS[y]), d)) :
            Bucket(DecileFrame(engine, YEARS[y]), d)[k].index = i}

\* C6, as claimed: every household of nonzero weight is in exactly one of
\* the ten decile buckets, whatever decile the engine gave it.
C6_EveryWeightedHouseholdInOneBucket ==
    Returned("distributional") =>
        \A y \in 1..Len(YEARS) : \A i \in 1..Len(HouseholdsOf(y)) :
            HouseholdsOf(y)[i].household_weight # 0 =>
                Cardinality(BucketsHolding(y, i)) = 1

\* C6, amended: a household of nonzero weight whose decile is in 1..10 is
\* in exactly one bucket, that of its decile, with its weight, change and
\* baseline income; one whose decile is outside 1..10 (the engine's -1 for
\* a negative income) is in no bucket.
C6_InRangeHouseholdInOneBucket ==
    Returned("distributional") =>
        \A y \in 1..Len(YEARS) : \A i \in 1..Len(HouseholdsOf(y)) :
            LET h == HouseholdsOf(y)[i]
                d == h.household_income_decile
            IN  h.household_weight # 0 =>
                    IF d \in 1..NumDeciles
                    THEN /\ BucketsHolding(y, i) = {d}
                         /\ \E k \in 1..Len(Bucket(DecileFrame(engine, YEARS[y]), d)) :
                               Bucket(DecileFrame(engine, YEARS[y]), d)[k]
                                   = [index |-> i, decile |-> d,
                                      change |-> h.r_income - h.b_income,
                                      baseline_income |-> h.b_income,
                                      weight |-> h.household_weight]
                    ELSE BucketsHolding(y, i) = {}

\* C6's case: of two weighted households the engine gave one decile -1 and
\* the other a decile in 1..10, and only the second has a row.
C6_Witness ==
    /\ Returned("distributional")
    /\ \E i, j \in 1..Len(HouseholdsOf(1)) :
          /\ HouseholdsOf(1)[i].household_weight > 0
          /\ HouseholdsOf(1)[j].household_weight > 0
          /\ HouseholdsOf(1)[i].household_income_decile = -1
          /\ HouseholdsOf(1)[j].household_income_decile \in 1..NumDeciles
          /\ BucketsHolding(1, i) = {}
          /\ BucketsHolding(1, j) = {HouseholdsOf(1)[j].household_income_decile}
          /\ distributional_df[1].decile = HouseholdsOf(1)[j].household_income_decile

\* the households of year y that the engine put in decile d
InDecile(y, d) ==
    {i \in 1..Len(HouseholdsOf(y)) : HouseholdsOf(y)[i].household_income_decile = d}

YearIndex(fy) == CHOOSE y \in 1..Len(YEARS) : FiscalYear(YEARS[y]) = fy

\* C7: after calculate_distributional_impact the table holds, year by year
\* and in increasing decile, exactly one row for each decile d of 1..10
\* whose total weight is not 0 and none for the others; the row's
\* avg_change is (sum of change x weight) / (sum of weight) and its relative
\* change 100 x (sum of change x weight) / (sum of baseline x weight), or 0
\* when that weighted baseline sum is not positive (rounded to 2 and to 4
\* places).
C7_DecileRows ==
    Returned("distributional") =>
        /\ \A r \in 1..Len(distributional_df) :
              LET row == distributional_df[r]
                  y == YearIndex(row.year)
                  hh == HouseholdsOf(y)
                  M == InDecile(y, row.decile)
                  W == [i \in 1..Len(hh) |-> hh[i].household_weight]
                  CW == [i \in 1..Len(hh) |->
                            (hh[i].r_income - hh[i].b_income) * hh[i].household_weight]
                  BW == [i \in 1..Len(hh) |-> hh[i].b_income * hh[i].household_weight]
              IN  /\ row.decile \in 1..NumDeciles
                  /\ SumOver(W, M) # 0
                  /\ row.avg_change_gbp
                         = Round(Rat(SumOver(CW, M), SumOver(W, M)), 2)
                  /\ row.relative_change_pct
                         = IF SumOver(BW, M) > 0
                           THEN Round(Rat(100 * SumOver(CW, M), SumOver(BW, M)), 4)
                           ELSE Zero
        /\ \A y \in 1..Len(YEARS) : \A d \in 1..NumDeciles :
              LET hh == HouseholdsOf(y)
                  W == [i \in 1..Len(hh) |-> hh[i].household_weight]
                  rows == {r \in 1..Len(distributional_df) :
                              /\ distributional_df[r].year = FiscalYear(YEARS[y])
                              /\ distributional_df[r].decile = d}
              IN  Cardinality(rows) = IF SumOver(W, InDecile(y, d)) = 0 THEN 0 ELSE 1
        /\ \A r \in 1..(Len(distributional_df) - 1) :
              LET a == distributional_df[r]
                  b == distributional_df[r + 1]
              IN  \/ YearIndex(a.year) < YearIndex(b.year)
                  \/ (a.year = b.year /\ a.decile < b.decile)

\* C7's case: two households of different weights and changes share a
\* decile, whose row holds their weighted mean change.
C7_Witness ==
    /\ Returned("distributional")
    /\ \E i, j \in 1..Len(HouseholdsOf(1)) :
          LET a == HouseholdsOf(1)[i]
              b == HouseholdsOf(1)[j]
          IN  /\ a.household_income_decile = b.household_income_decile
              /\ a.household_income_decile \in 1..NumDeciles
              /\ 0 < a.household_weight
              /\ a.household_weight < b.household_weight
              /\ a.r_income - a.b_income # b.r_income - b.b_income
              /\ a.b_income > 0
              /\ distributional_df[1].decile = a.household_income_decile
              /\ distributional_df[1].avg_change_gbp
                    = Round(Rat((a.r_income - a.b_income) * a.household_weight
                                  + (b.r_income - b.b_income) * b.household_weight,
                                a.household_weight + b.household_weight), 2)
              /\ Gt0(Sub(Zero, distributional_df[1].relative_change_pct))

\* The reform changes no variable of any unit in any year.
IdenticalScenarios ==
    \A y \in 1..Len(YEARS) :
        /\ \A i \in 1..Len(HouseholdsOf(y)) :
              /\ HouseholdsOf(y)[i].r_income = HouseholdsOf(y)[i].b_income
              /\ HouseholdsOf(y)[i].r_equiv = HouseholdsOf(y)[i].b_equiv
              /\ HouseholdsOf(y)[i].r_balance = HouseholdsOf(y)[i].b_balance
        /\ \A i \in 1..Len(PersonsOf(y)) :
              /\ PersonsOf(y)[i].r_bhc = PersonsOf(y)[i].b_bhc
              /\ PersonsOf(y)[i].r_ahc = PersonsOf(y)[i].b_ahc

\* C3: when baseline and reform are identical (and the engine knows every
\* variable), every table that has been computed reports zero change in
\* every row.
C3_IdenticalScenariosZeroChange ==
    IdenticalScenarios /\ unsupported = {} =>
        /\ \A r \in 1..Len(budgetary_df) : IsZero(budgetary_df[r].budgetary_impact_bn)
        /\ \A r \in 1..Len(headcounts_df) :
              /\ IsZero(headcounts_df[r].affected_households)
              /\ IsZero(headcounts_df[r].affected_people)
              /\ IsZero(headcounts_df[r].affected_children)
              /\ IsZero(headcounts_df[r].avg_loss_per_affected_hh)
        /\ \A r \in 1..Len(distributional_df) :
              /\ IsZero(distributional_df[r].avg_change_gbp)
              /\ IsZero(distributional_df[r].relative_change_pct)
        /\ \A r \in 1..Len(poverty_df) :
              /\ IsZero(poverty_df[r].change_pp)
              /\ IsZero(poverty_df[r].change_pct)
        /\ \A r \in 1..Len(inequality_df) : IsZero(inequality_df[r].gini_change_pct)

\* the measures whose variable the engine knows, in order
ComputedMeasures == SelectSeq(measures, LAMBDA m : m.var_name \notin unsupported)

\* C8: after calculate_poverty_impact the table holds, for every year and
\* every computed measure in order, one Children row then one All row;
\* where the group has weight, the row holds the group's weighted baseline
\* and reform rates over the baseline person weights, change_pp = reform
\* rate - baseline rate and change_pct = 100 x change_pp / baseline rate,
\* 0 when the baseline rate is 0 (rounded to 2, 2, 2 and 1 places).
C8_PovertyRows ==
    Returned("poverty") =>
        /\ Len(poverty_df) = 2 * Len(ComputedMeasures) * Len(YEARS)
        /\ \A y \in 1..Len(YEARS) : \A k \in 1..Len(ComputedMeasures) : \A g \in 1..2 :
              LET row == poverty_df[2 * ((y - 1) * Len(ComputedMeasures) + (k - 1)) + g]
                  pp == PersonsOf(y)
                  bhc == ComputedMeasures[k].var_name = "in_poverty_bhc"
                  G == {i \in 1..Len(pp) : g = 2 \/ pp[i].age < 18}
                  Poor == {i \in G : IF bhc THEN pp[i].b_bhc ELSE pp[i].b_ahc}
                  PoorR == {i \in G : IF bhc THEN pp[i].r_bhc ELSE pp[i].r_ahc}
                  W == [i \in 1..Len(pp) |-> pp[i].person_weight]
                  T == SumOver(W, G)
                  B == SumOver(W, Poor)
                  R == SumOver(W, PoorR)
              IN  /\ row.year = FiscalYear(YEARS[y])
                  /\ row.measure = ComputedMeasures[k].measure_name
                  /\ row.group = IF g = 1 THEN "Children" ELSE "All"
                  /\ T > 0 =>
                        /\ row.baseline_rate_pct = Round(Rat(100 * B, T), 2)
                        /\ row.reform_rate_pct = Round(Rat(100 * R, T), 2)
                        /\ row.change_pp = Round(Rat(100 * (R - B), T), 2)
                        /\ row.change_pct = IF B = 0 THEN Zero
                                            ELSE Round(Rat(100 * (R - B), B), 1)

\* C8's case: both measures computed on a child and an adult of different
\* weights, the reform moving the child's BHC rate off a nonzero baseline.
C8_Witness ==
    /\ Returned("poverty")
    /\ unsupported = {}
    /\ Len(poverty_df) = 8
    /\ \E i, j \in 1..Len(PersonsOf(1)) :
          /\ PersonsOf(1)[i].age < 18
          /\ PersonsOf(1)[j].age >= 18
          /\ 0 < PersonsOf(1)[i].person_weight
          /\ PersonsOf(1)[i].person_weight < PersonsOf(1)[j].person_weight
    /\ poverty_df[1].group = "Children"
    /\ poverty_df[2].group = "All"
    /\ Gt0(poverty_df[1].baseline_rate_pct)
    /\ Finite(poverty_df[1].change_pp)
    /\ ~IsZero(poverty_df[1].change_pct)
    /\ poverty_df[1].baseline_rate_pct # poverty_df[2].baseline_rate_pct

\* the variables step k of main() asks the engine for
CalledBy(k) ==
    {StepCalls[k][i] : i \in 1..Len(StepCalls[k])}
        \cup (IF Steps[k] = "poverty"
              THEN {measures[i].var_name : i \in 1..Len(measures)}
              ELSE {})

\* step k of main() has returned after asking the engine
ReturnedAsking(k) ==
    /\ Returned(Steps[k])
    /\ Steps[k] = "constituency" => files.weights /\ files.constituencies

\* C2, as claimed: no aggregator returns after asking for a variable the
\* engine does not know.
C2_UnknownVariableAborts ==
    \A k \in 1..Len(Steps) :
        ReturnedAsking(k) => CalledBy(k) \cap unsupported = {}

\* C2, amended: an unknown variable aborts the run with that error, and no
\* file is written, except in the per-measure calls inside the try block of
\* calculate_poverty_impact: there the measure is skipped, its rows are
\* left out of the table and the run goes on.
C2_UnknownVariableAbortsOutsideTry ==
    /\ \A k \in 1..Len(Steps) :
          ReturnedAsking(k) =>
              {StepCalls[k][i] : i \in 1..Len(StepCalls[k])} \cap unsupported = {}
    /\ pc = "failed" /\ error \in VariableNames => error \in unsupported /\ written = {}
    /\ Returned("poverty") =>
          \A m \in 1..Len(measures) :
              (measures[m].var_name \in unsupported)
                  <=> (\A r \in 1..Len(poverty_df) :
                          poverty_df[r].measure # measures[m].measure_name)

\* C2's case: the engine does not know in_poverty_bhc, and the run has
\* completed with that measure left out of poverty.csv.
C2_Witness ==
    /\ pc = "done"
    /\ "in_poverty_bhc" \in unsupported
    /\ Len(poverty_df) = 2 * Len(YEARS)
    /\ \A r \in 1..Len(poverty_df) : poverty_df[r].measure = "Absolute AHC"
    /\ "poverty.csv" \in written

\* C4: when either constituency file is missing, calculate_constituency_impact
\* returns an empty table without raising and without calling the engine;
\* a run that then fails does so on an unknown variable or on print_summary's
\* empty distributional table, and a run that completes has written the
\* five other tables and not constituency.csv.
C4_MissingFilesSkipConstituency ==
    /\ [][(pc = "constituency" /\ (~files.weights \/ ~files.constituencies))
             => /\ pc' = "summary"
                /\ constituency_df' = <<>>
                /\ calls' = calls
                /\ error' = error]_vars
    /\ []((pc = "failed" /\ (~files.weights \/ ~files.constituencies))
             => \/ error \in unsupported
                \/ (error = "KeyError: year" /\ distributional_df = <<>>))
    /\ []((pc = "done" /\ (~files.weights \/ ~files.constituencies))
             => written = {OUTPUTS[i] : i \in 1..5})

\* C4's case: only the weights file is missing and the run has completed.
C4_Witness ==
    /\ pc = "done"
    /\ ~files.weights
    /\ files.constituencies
    /\ constituency_df = <<>>
    /\ calls = CallsBefore(5, unsupported)
    /\ written = {OUTPUTS[i] : i \in 1..5}

\* every region's weight vector multiplied by k
Rescaled(cw, k) ==
    [r \in 1..Len(cw) |-> [i \in 1..Len(cw[r]) |-> k * cw[r][i]]]

\* C9: after calculate_constituency_impact, multiplying a region's weight
\* vector by a positive constant k changes neither its average change nor
\* its relative change: the table computed from the rescaled weights is the
\* table computed, whose average change is (sum of change x weight) /
\* (sum of weight) wherever the region has weight.
C9_RescaledWeightsSameAverages ==
    Returned("constituency") /\ files.weights /\ files.constituencies =>
        /\ \A k \in 1..MaxScale :
              ConstituencyTable(engine, Rescaled(constituency_weights, k))
                  = constituency_df
        /\ \A y \in 1..Len(YEARS) : \A r \in 1..Len(constituency_weights) :
              LET hh == HouseholdsOf(y)
                  w == constituency_weights[r]
                  CW == [i \in 1..Len(hh) |-> (hh[i].r_income - hh[i].b_income) * w[i]]
                  row == constituency_df[(y - 1) * Len(constituency_weights) + r]
              IN  SumSeq(w) > 0 =>
                      row.avg_change_gbp
                          = Round(Rat(SumOver(CW, 1..Len(hh)), SumSeq(w)), 2)

\* C9's case: a region whose households have different positive weights
\* and different changes, with a nonzero average and relative change.
C9_Witness ==
    /\ Returned("constituency")
    /\ files.weights /\ files.constituencies
    /\ Len(HouseholdsOf(1)) >= 2
    /\ 0 < constituency_weights[1][1]
    /\ constituency_weights[1][1] < constituency_weights[1][2]
    /\ HouseholdsOf(1)[1].r_income - HouseholdsOf(1)[1].b_income
           # HouseholdsOf(1)[2].r_income - HouseholdsOf(1)[2].b_income
    /\ Finite(constituency_df[1].avg_change_gbp)
    /\ ~IsZero(constituency_df[1].avg_change_gbp)
    /\ ~IsZero(constituency_df[1].relative_change_pct)
    /\ ConstituencyTable(engine, Rescaled(constituency_weights, MaxScale))
           = constituency_df

\* the positions of main() at which a to_csv call is next
SaveSteps ==
    {"save_budgetary", "save_headcounts", "save_distributional",
     "save_poverty", "save_inequality", "save_constituency"}

\* C11: no output file is written before the six calculations (in the order
\* budgetary, headcounts, distributional, poverty, inequality, constituency)
\* and print_summary have returned: the set of written files is empty at
\* every position before the first to_csv and in every failed run, a file
\* is only ever written by a to_csv step, and the first to_csv is reached
\* only from print_summary with the first five tables computed.
C11_NoFileBeforeAllCalculations ==
    /\ []((pc \notin SaveSteps \cup {"done"}) => written = {})
    /\ []((pc = "failed") =>
             /\ written = {}
             /\ \/ error \in unsupported
                \/ (error = "KeyError: year" /\ distributional_df = <<>>))
    /\ [][(written' # written) => (pc \in SaveSteps)]_vars
    /\ [][(pc' = "save_budgetary" /\ pc # "save_budgetary")
             => /\ pc = "summary"
                /\ budgetary_df # <<>>
                /\ headcounts_df # <<>>
                /\ distributional_df # <<>>
                /\ inequality_df # <<>>
                /\ calls >= CallsBefore(5, unsupported)]_vars
    /\ [][\A k \in 1..Len(Steps) :
             (pc = Steps[k] /\ pc' # pc)
                => pc' \in {"failed",
                            IF k < Len(Steps) THEN Steps[k + 1] ELSE "summary"}]_vars

\* C11's case: print_summary has raised on the empty distributional table
\* after all six calculations returned, and no file has been written.
C11_Witness ==
    /\ pc = "failed"
    /\ error = "KeyError: year"
    /\ distributional_df = <<>>
    /\ budgetary_df # <<>>
    /\ headcounts_df # <<>>
    /\ inequality_df # <<>>
    /\ calls >= CallsBefore(5, unsupported)
    /\ written = {}

====
